---------------------------- MODULE Spec2Model ----------------------------
(***************************************************************************)
(* Custom-shell command dispatch of Task (package execext).                *)
(*                                                                         *)
(* A Go string is modelled as a sequence of one-character strings, so that *)
(* filepath.Base, strings.TrimSuffix, strings.ToLower, strings.HasPrefix   *)
(* and strings.ReplaceAll are computed character by character.             *)
(***************************************************************************)
EXTENDS Integers, Sequences, FiniteSets, TLC

VARIABLES
    impl,       \* which customShHandler is built: "table" (internal/execext/exec.go)
                \* or "lastdash" (the second exec.go kept in the repository)
    sh,         \* opts.Sh, the shell specification
    optsEnv,    \* opts.Env
    installed,  \* execHandlers installed a custom handler
    joinMode,   \* the closure variable joinMode of customShHandler
    hcEnv,      \* the interpreter's variables (hc.Env), name -> Variable
    pc,         \* "new", "idle", "running", "returned"; "in", "out" in the runs of
                \* one pure function
    args,       \* the expanded args of the dispatch in progress
    cmd,        \* the exec.Cmd of the dispatch in progress
    proc,       \* the spawned subprocess
    ctxDone,    \* ctx.Done() has fired
    result,     \* what the handler returned
    prevEnv,    \* cmd.Env of the previous dispatch of this run
    fin,        \* input of a pure-function run
    fout,       \* output of a pure-function run
    backing,    \* the cells of sh's backing array past len(sh): cap(sh) - len(sh) strings
    sides       \* the dispatches of the two sides of a pipeline, which overlap in time

vars == <<impl, sh, optsEnv, installed, joinMode, hcEnv, pc, args, cmd, proc,
         ctxDone, result, prevEnv, fin, fout, backing, sides>>

---------------------------------------------------------------------------
(* Bounds *)

MaxShLen == 3       \* tokens in a generated sh spec
MaxStrLen == 4      \* characters in a generated string given to shellQuote
MaxArgs == 2        \* elements in a generated args list given to shellJoin
MaxArgLen == 2      \* characters in each such element
MaxExitCode == 257  \* largest exit code a subprocess is let to exit with

---------------------------------------------------------------------------
(* Strings *)

\* a Go slice that may be nil: append to a nil slice gives a non-nil one
NilList == [isNil |-> TRUE, list |-> <<>>]
AppendTo(l, x) == [isNil |-> FALSE, list |-> Append(l.list, x)]

RECURSIVE SeqsUpTo(_, _)
SeqsUpTo(S, n) ==
    IF n = 0 THEN {<<>>}
    ELSE LET shorter == SeqsUpTo(S, n - 1)
         IN  shorter \cup {Append(s, x) : s \in {t \in shorter : Len(t) = n - 1}, x \in S}

Last(s) == s[Len(s)]

\* strings.HasPrefix
HasPrefix(s, p) == Len(s) >= Len(p) /\ SubSeq(s, 1, Len(p)) = p

\* strings.HasSuffix
HasSuffix(s, p) == Len(s) >= Len(p) /\ SubSeq(s, Len(s) - Len(p) + 1, Len(s)) = p

\* strings.TrimSuffix
TrimSuffix(s, p) == IF HasSuffix(s, p) THEN SubSeq(s, 1, Len(s) - Len(p)) ELSE s

UpperLetters == <<"A","B","C","D","E","F","G","H","I","J","K","L","M",
                  "N","O","P","Q","R","S","T","U","V","W","X","Y","Z">>
LowerLetters == <<"a","b","c","d","e","f","g","h","i","j","k","l","m",
                  "n","o","p","q","r","s","t","u","v","w","x","y","z">>

ToLowerChar(c) ==
    IF \E i \in DOMAIN UpperLetters : UpperLetters[i] = c
    THEN LowerLetters[CHOOSE i \in DOMAIN UpperLetters : UpperLetters[i] = c]
    ELSE c

\* strings.ToLower
ToLower(s) == [i \in DOMAIN s |-> ToLowerChar(s[i])]

\* os.IsPathSeparator, on a system whose separator is the slash
IsPathSeparator(c) == c = "/"

RECURSIVE StripTrailingSeparators(_)
StripTrailingSeparators(p) ==
    IF Len(p) > 0 /\ IsPathSeparator(Last(p))
    THEN StripTrailingSeparators(SubSeq(p, 1, Len(p) - 1))
    ELSE p

\* filepath.Base
Base(path) ==
    IF path = <<>> THEN <<".">>
    ELSE LET p == StripTrailingSeparators(path)
             seps == {i \in DOMAIN p : IsPathSeparator(p[i])}
             i == IF seps = {} THEN 0 ELSE CHOOSE k \in seps : \A j \in seps : j <= k
             e == SubSeq(p, i + 1, Len(p))
         IN  IF e = <<>> THEN <<"/">> ELSE e

---------------------------------------------------------------------------
(* Mode classification *)

DashC == <<"-", "c">>
DotExe == <<".", "e", "x", "e">>

knownCommandStringShells ==
    (<<"s","h">> :> DashC) @@ (<<"b","a","s","h">> :> DashC) @@
    (<<"z","s","h">> :> DashC) @@ (<<"d","a","s","h">> :> DashC) @@
    (<<"k","s","h">> :> DashC) @@ (<<"f","i","s","h">> :> DashC) @@
    (<<"p","w","s","h">> :> DashC) @@
    (<<"p","o","w","e","r","s","h","e","l","l">> :> DashC)

\* a plausible slip: the flag is looked for right after the shell, not last
isJoinMode_SecondToken(s) ==
    IF Len(s) < 2 THEN FALSE
    ELSE LET base == ToLower(TrimSuffix(Base(s[1]), DotExe))
         IN  IF base \notin DOMAIN knownCommandStringShells THEN FALSE
             ELSE s[2] = knownCommandStringShells[base]

isJoinMode(s) ==
    IF Len(s) < 2 THEN FALSE
    ELSE LET base == ToLower(TrimSuffix(Base(s[1]), DotExe))
         IN  IF base \notin DOMAIN knownCommandStringShells THEN FALSE
             ELSE Last(s) = knownCommandStringShells[base]

\* the other customShHandler: joinMode := len(sh) > 0 && HasPrefix(last, "-")
lastDashJoinMode(s) == Len(s) > 0 /\ HasPrefix(Last(s), <<"-">>)

---------------------------------------------------------------------------
(* Quoting *)

Quote == "'"
Backslash == "\\"
Space == " "

\* the replacement text of strings.ReplaceAll(s, "'", `'\''`)
QuoteEscape == <<Quote, Backslash, Quote, Quote>>

RECURSIVE ReplaceAllQuotes(_)
ReplaceAllQuotes(s) ==
    IF s = <<>> THEN <<>>
    ELSE (IF Head(s) = Quote THEN QuoteEscape ELSE <<Head(s)>>)
         \o ReplaceAllQuotes(Tail(s))

RECURSIVE BackslashQuotes(_)
BackslashQuotes(s) ==
    IF s = <<>> THEN <<>>
    ELSE (IF Head(s) = Quote THEN <<Backslash, Quote>> ELSE <<Head(s)>>)
         \o BackslashQuotes(Tail(s))

\* a plausible slip: an embedded quote is escaped by a backslash inside the quotes
shellQuote_BackslashOnly(s) == <<Quote>> \o BackslashQuotes(s) \o <<Quote>>

\* a plausible slip: embedded quotes are not escaped
shellQuote_NoEscape(s) == <<Quote>> \o s \o <<Quote>>

shellQuote(s) == <<Quote>> \o ReplaceAllQuotes(s) \o <<Quote>>

RECURSIVE StringsJoin(_, _)
\* strings.Join
StringsJoin(elems, sep) ==
    IF elems = <<>> THEN <<>>
    ELSE IF Len(elems) = 1 THEN elems[1]
    ELSE elems[1] \o sep \o StringsJoin(Tail(elems), sep)

\* a plausible slip: the quoted elements are joined without the separator
shellJoin_NoSeparator(a) == StringsJoin([i \in DOMAIN a |-> shellQuote(a[i])], <<>>)

shellJoin(a) == StringsJoin([i \in DOMAIN a |-> shellQuote(a[i])], <<Space>>)

---------------------------------------------------------------------------
(* The interpreter's variables and the environment projection *)

NameF == <<"F", "O", "O">>
NameH == <<"H", "O", "M", "E">>
Names == {NameF, NameH}
\* the order in which hc.Env.Each visits the names in this model (Go leaves
\* the order open; the claims read the collected list as a set)
EachOrder == <<NameF, NameH>>

ValBar == <<"b", "a", "r">>
ValBaz == <<"b", "a", "z">>
Values == {ValBar, ValBaz}

Unset == [Exported |-> FALSE, Kind |-> "Unset", Str |-> <<>>]
StringVar(exported, v) == [Exported |-> exported, Kind |-> "String", Str |-> v]
ArrayVar(exported, kind) == [Exported |-> exported, Kind |-> kind, Str |-> <<>>]

\* name+"="+vr.Str
EnvEntry(name, str) == name \o <<"=">> \o str

\* the dispatcher process's own environment, os.Environ()
OsEnviron == <<[name |-> NameH, value |-> ValBar]>>

\* expand.ListEnviron(environ...): every pair is an exported string variable
ListEnviron(environ) ==
    [n \in Names |->
        IF \E i \in DOMAIN environ : environ[i].name = n
        THEN LET i == CHOOSE k \in DOMAIN environ :
                        /\ environ[k].name = n
                        /\ \A j \in DOMAIN environ : environ[j].name = n => j <= k
             IN  StringVar(TRUE, environ[i].value)
        ELSE Unset]

\* a plausible slip: the Exported test is left out of the filter
envFilter_KindOnly(vr) == vr.Kind = "String"

\* if vr.Exported && vr.Kind == expand.String
envFilter(vr) == vr.Exported /\ vr.Kind = "String"

RECURSIVE EachCollect(_, _, _)
\* hc.Env.Each(func ...) appending to envList, which starts as a nil slice.
\* Each is taken to call the function once for every set variable, with the
\* variable's current attributes and value.
EachCollect(e, order, envList) ==
    IF order = <<>> THEN envList
    ELSE LET n == Head(order)
             next == IF e[n].Kind # "Unset" /\ envFilter(e[n])
                     THEN AppendTo(envList, EnvEntry(n, e[n].Str))
                     ELSE envList
         IN  EachCollect(e, Tail(order), next)

collectEnv(e) == EachCollect(e, EachOrder, NilList)

\* a plausible slip: the mode is decided anew from the args of each dispatch
extraArgs_ModeFromArgs(jm, a) == IF Last(a) = <<"h", "i">> THEN a ELSE <<shellJoin(a)>>

\* a plausible slip: join mode appends the args one by one all the same
extraArgs_NeverJoined(jm, a) == a

\* var extraArgs: []string{shellJoin(args)} in join mode, args otherwise
extraArgs(jm, a) == IF jm THEN <<shellJoin(a)>> ELSE a

\* exec.CommandContext(ctx, sh[0], append(sh[1:], extraArgs...)...), cmd.Env = envList
buildCmd(s, jm, a, e) ==
    [Path |-> s[1], Args |-> Tail(s) \o extraArgs(jm, a), Env |-> collectEnv(e)]

\* the environment the started process gets: exec.Cmd uses the current
\* process's environment when cmd.Env is nil
procEnviron(cmdEnv) ==
    IF cmdEnv.isNil
    THEN {EnvEntry(OsEnviron[i].name, OsEnviron[i].value) : i \in DOMAIN OsEnviron}
    ELSE {cmdEnv.list[i] : i \in DOMAIN cmdEnv.list}

Uint8Mod == 256

\* uint8(n)
Uint8(n) == n % Uint8Mod

\* exec.ExitError.ExitCode(): the exit code, or -1 for a process ended by a signal
ExitCode(p) == IF p.state = "killed" THEN -1 ELSE p.code

NoErr == "none"

\* a plausible slip: every failed run is passed on as the generic error
runResult_AlwaysErr(p) ==
    IF p.state = "exited" /\ p.code = 0
    THEN [kind |-> "nil", status |-> 0, err |-> NoErr]
    ELSE [kind |-> "error", status |-> 0,
          err |-> IF p.state = "none" THEN p.startErr ELSE "exit error"]

\* a plausible slip: the exit code is not carried, every failure is status 1
runResult_StatusOne(p) ==
    IF p.state = "none" THEN [kind |-> "error", status |-> 0, err |-> p.startErr]
    ELSE IF p.state = "exited" /\ p.code = 0
    THEN [kind |-> "nil", status |-> 0, err |-> NoErr]
    ELSE [kind |-> "exitstatus", status |-> 1, err |-> NoErr]

\* if err := cmd.Run(); err != nil { if errors.As(err, &exitErr) { return
\* interp.ExitStatus(uint8(exitErr.ExitCode())) }; return err }; return nil
runResult(p) ==
    IF p.state = "none" THEN [kind |-> "error", status |-> 0, err |-> p.startErr]
    ELSE IF p.state = "exited" /\ p.code = 0
    THEN [kind |-> "nil", status |-> 0, err |-> NoErr]
    ELSE [kind |-> "exitstatus", status |-> Uint8(ExitCode(p)), err |-> NoErr]

NoResult == [kind |-> "none", status |-> 0, err |-> NoErr]
NoCmd == [Path |-> <<>>, Args |-> <<>>, Env |-> NilList]
NoProc == [state |-> "none", argv |-> <<>>, env |-> {}, code |-> 0, startErr |-> NoErr]

---------------------------------------------------------------------------
(* Inputs *)

TBash == <<"b", "a", "s", "h">>
TBinBash == <<"/", "b", "i", "n", "/", "b", "a", "s", "h">>
TBashExe == <<"b", "a", "s", "h", ".", "e", "x", "e">>
TBashUpperExe == <<"B", "A", "S", "H", ".", "E", "X", "E">>
TBashCap == <<"B", "a", "s", "h">>
TBashDir == <<"b", "a", "s", "h", "/">>
TPwsh == <<"p", "w", "s", "h">>
TMyshell == <<"m", "y", "s", "h", "e", "l", "l">>
TDocker == <<"d", "o", "c", "k", "e", "r">>
TRun == <<"r", "u", "n">>
TRm == <<"-", "-", "r", "m">>
TAlpine == <<"a", "l", "p", "i", "n", "e">>
TDashX == <<"-", "x">>
TDashCUpper == <<"-", "C">>
TDashNop == <<"-", "n", "o", "p">>
TExtra == <<"e", "x", "t", "r", "a">>
TDashV == <<"-", "v">>
TSomearg == <<"s", "o", "m", "e", "a", "r", "g">>
TEcho == <<"e", "c", "h", "o">>
THello == <<"h", "e", "l", "l", "o">>
THelloWorld == <<"h", "e", "l", "l", "o", " ", "w", "o", "r", "l", "d">>
THi == <<"h", "i">>
TItsFine == <<"i", "t", "'", "s", " ", "f", "i", "n", "e">>
TItsHere == <<"i", "t", "'", "s", " ", "h", "e", "r", "e">>
TEnv == <<"e", "n", "v">>
TCmd == <<"c", "m", "d">>
TDollarVar == <<"$", "V", "A", "R">>
TAmpPipe == <<"a", "&", "b", "|", "c">>

ShDockerRun == <<TDocker, TRun, TRm, TAlpine>>

\* the tokens the generated sh specs are made of
ShTokens == {TBash, TBinBash, TBashExe, TBashUpperExe, TBashCap, TBashDir, TPwsh,
             TMyshell, TDocker, DashC, TDashCUpper, TDashX, TDashNop, TExtra}

\* the sh specs given to the classifier alone
ShSpecs == SeqsUpTo(ShTokens, MaxShLen) \cup {ShDockerRun}

\* the sh specs a command is run with
ShDispatch == {<<>>, <<TBash>>, <<DashC>>, <<TBash, DashC>>, <<TMyshell, DashC>>,
               <<TMyshell, TDashV, DashC>>, <<TMyshell, DashC, TSomearg>>, ShDockerRun}

\* the expanded args the interpreter hands to the handler
ArgsDispatch == {<<TEcho, THelloWorld>>, <<TEcho, THi>>}

\* opts.Env
OptsEnvs == {<<>>, <<[name |-> NameF, value |-> ValBar]>>}

\* exit codes of the subprocess in the runs of whole scripts
ExitCodeSample == {0, 1, 3, 255, 256}

\* why cmd.Start may fail
StartErrs == {"executable file not found", "permission denied"}

QuoteAlphabet == {Quote, Backslash, Space, "$", "a"}
QuoteInputs == SeqsUpTo(QuoteAlphabet, MaxStrLen)
                 \cup {THello, THelloWorld, TItsHere, TDollarVar, TAmpPipe}

JoinAlphabet == {Quote, Space, "a"}
JoinInputs == SeqsUpTo(SeqsUpTo(JoinAlphabet, MaxArgLen), MaxArgs)
                \cup {<<TEcho, THello>>, <<TEcho, THelloWorld>>,
                      <<TEnv, TEcho, TItsFine>>, <<TCmd>>}

---------------------------------------------------------------------------
(* Running a command: RunCommand, the script's lines, the handler *)

\* joinMode as each customShHandler computes it when it is built
handlerJoinMode(which, s) ==
    IF which = "table" THEN isJoinMode(s) ELSE lastDashJoinMode(s)

NoPure == /\ fin = <<>>
          /\ fout = <<>>

MaxSpare == 2       \* cap(sh) - len(sh), the spare cells of sh's backing array

Sides == {1, 2}
IdleSide == [pc |-> "idle", args |-> <<>>, inPlace |-> FALSE, n |-> 0,
             fresh |-> <<>>, argv |-> <<>>]

\* cap(sh) = len(sh) and no pipeline
NoPipe == /\ backing = <<>>
          /\ sides = [k \in Sides |-> IdleSide]

InitRun(shs, envs) ==
    /\ impl \in {"table", "lastdash"}
    /\ sh \in shs
    /\ optsEnv \in envs
    /\ installed = FALSE
    /\ joinMode = FALSE
    /\ hcEnv = [n \in Names |-> Unset]
    /\ pc = "new"
    /\ args = <<>>
    /\ cmd = NoCmd
    /\ proc = NoProc
    /\ ctxDone = FALSE
    /\ result = NoResult
    /\ prevEnv = <<>>
    /\ NoPure
    /\ NoPipe

Init == InitRun(ShDispatch, OptsEnvs)

\* RunCommand up to r.Run: the environment of the interpreter and execHandlers(opts.Sh)
RunCommand ==
    /\ pc = "new"
    /\ LET environ == IF Len(optsEnv) = 0 THEN OsEnviron ELSE optsEnv
       IN  hcEnv' = ListEnviron(environ)
    /\ installed' = (Len(sh) > 0)
    /\ joinMode' = IF Len(sh) > 0 THEN handlerJoinMode(impl, sh) ELSE FALSE
    /\ pc' = IF Len(sh) > 0 THEN "idle" ELSE "nohandler"
    /\ UNCHANGED <<impl, sh, optsEnv, args, cmd, proc, ctxDone, result, prevEnv, fin, fout, backing, sides>>

ScriptLine(n, vr) ==
    /\ pc = "idle"
    /\ ~ctxDone
    /\ hcEnv' = [hcEnv EXCEPT ![n] = vr]
    /\ UNCHANGED <<impl, sh, optsEnv, installed, joinMode, pc, args, cmd, proc,
                   ctxDone, result, prevEnv, fin, fout, backing, sides>>

\* export NAME=VALUE
Export(n, v) == ScriptLine(n, StringVar(TRUE, v))

\* NAME=VALUE: the export attribute is kept
Assign(n, v) == ScriptLine(n, StringVar(hcEnv[n].Exported, v))

\* unset NAME
UnsetVar(n) == ScriptLine(n, Unset)

\* export -n NAME
Unexport(n) ==
    /\ hcEnv[n].Kind # "Unset"
    /\ ScriptLine(n, [hcEnv[n] EXCEPT !.Exported = FALSE])

\* declare -a NAME, declare -A NAME, with or without -x
DeclareArray(n, kind, exported) == ScriptLine(n, ArrayVar(exported, kind))

\* the handler up to cmd.Run starting the subprocess (or failing to)
Dispatch(a, startErr) ==
    /\ pc = "idle"
    /\ installed
    /\ args' = a
    /\ cmd' = buildCmd(sh, joinMode, a, hcEnv)
    /\ IF ctxDone \/ startErr # NoErr
       THEN /\ proc' = [NoProc EXCEPT !.startErr =
                            IF ctxDone THEN "context canceled" ELSE startErr]
            /\ result' = runResult(proc')
            /\ pc' = "returned"
       ELSE /\ proc' = [state |-> "running", argv |-> <<cmd'.Path>> \o cmd'.Args,
                        env |-> procEnviron(cmd'.Env), code |-> 0, startErr |-> NoErr]
            /\ result' = NoResult
            /\ pc' = "running"
    /\ UNCHANGED <<impl, sh, optsEnv, installed, joinMode, hcEnv, ctxDone, prevEnv,
                   fin, fout, backing, sides>>

\* the subprocess exits with code n; cmd.Run returns and so does the handler
ProcExit(n) ==
    /\ pc = "running"
    /\ proc.state = "running"
    /\ proc' = [proc EXCEPT !.state = "exited", !.code = n]
    /\ result' = runResult(proc')
    /\ pc' = "returned"
    /\ UNCHANGED <<impl, sh, optsEnv, installed, joinMode, hcEnv, args, cmd, ctxDone,
                   prevEnv, fin, fout, backing, sides>>

\* the context is cancelled: a timeout or an interrupt
Cancel ==
    /\ pc \in {"idle", "running"}
    /\ ~ctxDone
    /\ ctxDone' = TRUE
    /\ UNCHANGED <<impl, sh, optsEnv, installed, joinMode, hcEnv, pc, args, cmd, proc,
                   result, prevEnv, fin, fout, backing, sides>>

\* a plausible slip: the handler returns on ctx.Done() and leaves the subprocess
Kill_ReturnsWhileRunning ==
    /\ pc = "running"
    /\ ctxDone
    /\ proc.state = "running"
    /\ result' = [kind |-> "error", status |-> 0, err |-> "context canceled"]
    /\ pc' = "returned"
    /\ UNCHANGED <<impl, sh, optsEnv, installed, joinMode, hcEnv, args, cmd, proc,
                   ctxDone, prevEnv, fin, fout, backing, sides>>

\* exec.CommandContext kills the subprocess once ctx is done; cmd.Run returns
Kill ==
    /\ pc = "running"
    /\ ctxDone
    /\ proc.state = "running"
    /\ proc' = [proc EXCEPT !.state = "killed"]
    /\ result' = runResult(proc')
    /\ pc' = "returned"
    /\ UNCHANGED <<impl, sh, optsEnv, installed, joinMode, hcEnv, args, cmd, ctxDone,
                   prevEnv, fin, fout, backing, sides>>

\* the interpreter goes on with the script after the handler returned a status
Continue ==
    /\ pc = "returned"
    /\ result.kind \in {"nil", "exitstatus"}
    /\ ~ctxDone
    /\ prevEnv' = <<cmd.Env>>
    /\ pc' = "idle"
    /\ args' = <<>>
    /\ cmd' = NoCmd
    /\ proc' = NoProc
    /\ result' = NoResult
    /\ UNCHANGED <<impl, sh, optsEnv, installed, joinMode, hcEnv, ctxDone, fin, fout, backing, sides>>

Next ==
    \/ RunCommand
    \/ \E n \in Names, v \in Values : Export(n, v)
    \/ \E n \in Names, v \in Values : Assign(n, v)
    \/ \E n \in Names : UnsetVar(n)
    \/ \E n \in Names : Unexport(n)
    \/ \E n \in Names, k \in {"Indexed", "Associative"}, x \in BOOLEAN : DeclareArray(n, k, x)
    \/ \E a \in ArgsDispatch, e \in StartErrs \cup {NoErr} : Dispatch(a, e)
    \/ \E n \in ExitCodeSample : ProcExit(n)
    \/ Cancel
    \/ Kill
    \/ Continue

Spec == Init /\ [][Next]_vars

\* one command, every exit code
InitExit == InitRun({<<TBash, DashC>>, ShDockerRun}, {<<>>})

NextExit ==
    \/ RunCommand
    \/ \E a \in ArgsDispatch, e \in StartErrs \cup {NoErr} : Dispatch(a, e)
    \/ \E n \in 0..MaxExitCode : ProcExit(n)
    \/ Cancel
    \/ Kill

SpecExit == InitExit /\ [][NextExit]_vars

\* the goroutine that exec.CommandContext starts to watch ctx.Done() is scheduled:
\* a running subprocess whose context is done is killed unless it exits first
SpecCancel == InitExit /\ [][NextExit]_vars /\ WF_vars(Kill)

---------------------------------------------------------------------------
(* The two sides of a pipeline: dispatches through one handler that overlap *)

\* append(sh[1:], extraArgs...): the elements are written into the backing array
\* of sh when cap(sh[1:]) - len(sh[1:]) = cap(sh) - len(sh) cells take them, and
\* into a new array otherwise
PipeAppend(k, a) ==
    /\ pc = "idle"
    /\ installed
    /\ sides[k].pc = "idle"
    /\ LET extra == extraArgs(joinMode, a)
       IN  IF Len(extra) <= Len(backing)
           THEN /\ backing' = [i \in DOMAIN backing |->
                                   IF i <= Len(extra) THEN extra[i] ELSE backing[i]]
                /\ sides' = [sides EXCEPT ![k] =
                                 [pc |-> "appended", args |-> a, inPlace |-> TRUE,
                                  n |-> Len(extra), fresh |-> <<>>, argv |-> <<>>]]
           ELSE /\ backing' = backing
                /\ sides' = [sides EXCEPT ![k] =
                                 [pc |-> "appended", args |-> a, inPlace |-> FALSE,
                                  n |-> 0, fresh |-> Tail(sh) \o extra, argv |-> <<>>]]
    /\ UNCHANGED <<impl, sh, optsEnv, installed, joinMode, hcEnv, pc, args, cmd, proc,
                   ctxDone, result, prevEnv, fin, fout>>

\* exec.CommandContext(ctx, sh[0], arg...): Args is a new slice, sh[0] and then
\* the elements that the slice returned by append holds at this moment
PipeCommand(k) ==
    /\ sides[k].pc = "appended"
    /\ LET arg == IF sides[k].inPlace
                  THEN Tail(sh) \o SubSeq(backing, 1, sides[k].n)
                  ELSE sides[k].fresh
       IN  sides' = [sides EXCEPT ![k].pc = "built", ![k].argv = <<sh[1]>> \o arg]
    /\ UNCHANGED <<impl, sh, optsEnv, installed, joinMode, hcEnv, pc, args, cmd, proc,
                   ctxDone, result, prevEnv, fin, fout, backing>>

\* cmd.Run is over and the handler returns to its side of the pipeline
PipeReturn(k) ==
    /\ sides[k].pc = "built"
    /\ sides' = [sides EXCEPT ![k] = IdleSide]
    /\ UNCHANGED <<impl, sh, optsEnv, installed, joinMode, hcEnv, pc, args, cmd, proc,
                   ctxDone, result, prevEnv, fin, fout, backing>>

\* opts.Sh is a slice of the caller, of any capacity
InitPipe ==
    /\ impl \in {"table", "lastdash"}
    /\ sh \in {<<TBash, DashC>>, ShDockerRun}
    /\ optsEnv = <<>>
    /\ installed = FALSE
    /\ joinMode = FALSE
    /\ hcEnv = [n \in Names |-> Unset]
    /\ pc = "new"
    /\ args = <<>>
    /\ cmd = NoCmd
    /\ proc = NoProc
    /\ ctxDone = FALSE
    /\ result = NoResult
    /\ prevEnv = <<>>
    /\ NoPure
    /\ backing \in {[i \in 1..c |-> <<>>] : c \in 0..MaxSpare}
    /\ sides = [k \in Sides |-> IdleSide]

NextPipe ==
    \/ RunCommand
    \/ \E k \in Sides, a \in ArgsDispatch : PipeAppend(k, a)
    \/ \E k \in Sides : PipeCommand(k)
    \/ \E k \in Sides : PipeReturn(k)

SpecPipe == InitPipe /\ [][NextPipe]_vars

---------------------------------------------------------------------------
(* Runs of one pure function *)

InitPure(inputs) ==
    /\ impl = "table"
    /\ sh = <<>>
    /\ optsEnv = <<>>
    /\ installed = FALSE
    /\ joinMode = FALSE
    /\ hcEnv = [n \in Names |-> Unset]
    /\ pc = "in"
    /\ args = <<>>
    /\ cmd = NoCmd
    /\ proc = NoProc
    /\ ctxDone = FALSE
    /\ result = NoResult
    /\ prevEnv = <<>>
    /\ fin \in inputs
    /\ fout = <<>>
    /\ NoPipe

PureStep(out) ==
    /\ pc = "in"
    /\ fout' = out
    /\ pc' = "out"
    /\ UNCHANGED <<impl, sh, optsEnv, installed, joinMode, hcEnv, args, cmd, proc,
                   ctxDone, result, prevEnv, fin, backing, sides>>

CallIsJoinMode == PureStep(<<isJoinMode(fin)>>)
SpecMode == InitPure(ShSpecs) /\ [][CallIsJoinMode]_vars

CallShellQuote == PureStep(shellQuote(fin))
SpecQuote == InitPure(QuoteInputs) /\ [][CallShellQuote]_vars

CallShellJoin == PureStep(shellJoin(fin))
SpecJoin == InitPure(JoinInputs) /\ [][CallShellJoin]_vars

---------------------------------------------------------------------------
(* ShArgs.UnmarshalYAML *)

\* unicode.IsSpace, for the characters of the generated scalars
IsSpace(c) == c \in {" ", "\t", "\n", "\r", "\f"}

RECURSIVE FieldsScan(_, _, _, _)
FieldsScan(s, i, cur, acc) ==
    IF i > Len(s) THEN (IF cur = <<>> THEN acc ELSE Append(acc, cur))
    ELSE IF IsSpace(s[i])
         THEN FieldsScan(s, i + 1, <<>>, IF cur = <<>> THEN acc ELSE Append(acc, cur))
         ELSE FieldsScan(s, i + 1, Append(cur, s[i]), acc)

\* strings.Fields
Fields(s) == FieldsScan(s, 1, <<>>, <<>>)

StrTag == "!!str"
NullTag == "!!null"

\* a yaml.Node: its Kind, its resolved short tag, its Value and its Content
Node(kind, tag, value, content) ==
    [Kind |-> kind, Tag |-> tag, Value |-> value, Content |-> content]

ScalarNode(value) == Node("Scalar", StrTag, value, <<>>)
NullNode == Node("Scalar", NullTag, <<"~">>, <<>>)
MappingNode == Node("Mapping", "!!map", <<>>, <<>>)
AliasNode == Node("Alias", "", <<>>, <<>>)
SequenceNode(content) == Node("Sequence", "!!seq", <<>>, content)

RECURSIVE DecodeElems(_, _)
\* the loop of the yaml decoder over the elements of a sequence decoded into a
\* []string: an element that does not decode is left out of the slice; a null
\* element does not decode into a string and is no error; a non-scalar element is
\* a type error
DecodeElems(content, acc) ==
    IF content = <<>> THEN acc
    ELSE LET n == Head(content)
         IN  IF n.Kind # "Scalar"
             THEN DecodeElems(Tail(content), [acc EXCEPT !.err = TRUE])
             ELSE IF n.Tag = NullTag
             THEN DecodeElems(Tail(content), acc)
             ELSE DecodeElems(Tail(content),
                              [acc EXCEPT !.list = Append(acc.list, n.Value)])

\* node.Decode(&args) with args a []string
Decode(node) == DecodeElems(node.Content, [err |-> FALSE, list |-> <<>>])

DecodeErr == "TaskfileDecodeError"

\* (*ShArgs).UnmarshalYAML: s is the value of *s at the call
UnmarshalYAML(s, node) ==
    IF node.Kind = "Scalar" THEN [err |-> NoErr, s |-> Fields(node.Value)]
    ELSE IF node.Kind = "Sequence"
    THEN LET d == Decode(node)
         IN  IF d.err THEN [err |-> DecodeErr, s |-> s]
             ELSE [err |-> NoErr, s |-> d.list]
    ELSE [err |-> DecodeErr, s |-> s]

MaxYamlLen == 4     \* characters in a generated scalar value of sh
MaxSeqLen == 3      \* elements in a generated sequence value of sh

YamlAlphabet == {" ", "\t", "a", "-"}
YamlElems == {ScalarNode(TBash), ScalarNode(DashC), ScalarNode(THelloWorld),
              ScalarNode(<<>>), NullNode, MappingNode}
YamlNodes ==
    {ScalarNode(v) : v \in SeqsUpTo(YamlAlphabet, MaxYamlLen)}
        \cup {SequenceNode(c) : c \in SeqsUpTo(YamlElems, MaxSeqLen)}
        \cup {MappingNode, AliasNode}
\* *s before the call: the zero value, or a value decoded earlier
YamlPrev == {<<>>, <<TBash, DashC>>}
YamlInputs == [s : YamlPrev, node : YamlNodes]

CallUnmarshalYAML == PureStep(UnmarshalYAML(fin.s, fin.node))
SpecYaml == InitPure(YamlInputs) /\ [][CallUnmarshalYAML]_vars

---------------------------------------------------------------------------
(* What the claims are read against *)

\* the characters a POSIX shell gives a meaning to when they stand unquoted
Metachars == {"$", "&", "|"}

RECURSIVE PosixScan(_, _, _, _, _, _)
\* A POSIX-quote-aware word splitter: between single quotes every character is
\* literal; outside them a backslash makes the next character literal, a space
\* ends the word, and a metacharacter is interpreted (the reading fails, as does
\* an unclosed quote or a trailing backslash).
PosixScan(s, i, inQuote, cur, inWord, words) ==
    IF i > Len(s)
    THEN IF inQuote THEN [ok |-> FALSE, words |-> words]
         ELSE [ok |-> TRUE, words |-> IF inWord THEN Append(words, cur) ELSE words]
    ELSE IF inQuote
    THEN IF s[i] = Quote THEN PosixScan(s, i + 1, FALSE, cur, TRUE, words)
         ELSE PosixScan(s, i + 1, TRUE, Append(cur, s[i]), TRUE, words)
    ELSE IF s[i] = Quote THEN PosixScan(s, i + 1, TRUE, cur, TRUE, words)
    ELSE IF s[i] = Backslash
    THEN IF i + 1 > Len(s) THEN [ok |-> FALSE, words |-> words]
         ELSE PosixScan(s, i + 2, FALSE, Append(cur, s[i + 1]), TRUE, words)
    ELSE IF s[i] = Space
    THEN IF inWord THEN PosixScan(s, i + 1, FALSE, <<>>, FALSE, Append(words, cur))
         ELSE PosixScan(s, i + 1, FALSE, <<>>, FALSE, words)
    ELSE IF s[i] \in Metachars THEN [ok |-> FALSE, words |-> words]
    ELSE PosixScan(s, i + 1, FALSE, Append(cur, s[i]), TRUE, words)

PosixRead(s) == PosixScan(s, 1, FALSE, <<>>, FALSE, <<>>)

Chars(s) == {s[i] : i \in DOMAIN s}

\* the number of single quotes among the first k characters of s
QuotesBefore(s, k) == Cardinality({j \in 1..k : s[j] = Quote})

Dispatched == pc \in {"running", "returned"}
Started == proc.state \in {"running", "exited", "killed"}

\* the entries NAME=VALUE of the exported string variables of an interpreter state
ExportedStrings(e) ==
    {EnvEntry(n, e[n].Str) : n \in {m \in Names : e[m].Exported /\ e[m].Kind = "String"}}

Entries(l) == {l.list[i] : i \in DOMAIN l.list}

LitEchoHelloWorld ==
    <<"'", "e", "c", "h", "o", "'", " ", "'", "h", "e", "l", "l", "o", " ", "w",
      "o", "r", "l", "d", "'">>

LitItsHere ==
    <<"'", "i", "t", "'", "\\", "'", "'", "s", " ", "h", "e", "r", "e", "'">>

LitEnvEchoItsFine ==
    <<"'", "e", "n", "v", "'", " ", "'", "e", "c", "h", "o", "'", " ", "'", "i",
      "t", "'", "\\", "'", "'", "s", " ", "f", "i", "n", "e", "'">>

\* the tokens of ShTokens that name a shell of the table: their basename, with
\* a trailing .exe stripped and then lowercased, is bash or pwsh
KnownShellTokens == {TBash, TBinBash, TBashExe, TBashCap, TBashDir, TPwsh}

---------------------------------------------------------------------------
(* Claims *)

\* C1: isJoinMode(sh) is true exactly when sh has at least 2 tokens, the
\* basename of sh[0] (.exe stripped, then lowercased) is a shell of the table
\* and the last token is that shell's flag -c; the listed specs classify as the
\* truth table says.
C1_JoinIffKnownShellAndFlagLast ==
    pc = "out" =>
        /\ fout[1] = (Len(fin) >= 2 /\ fin[1] \in KnownShellTokens /\ Last(fin) = DashC)
        /\ fin \in {<<TBash, DashC>>, <<TPwsh, TDashNop, DashC>>, <<TBinBash, DashC>>,
                    <<TBashExe, DashC>>} => fout[1]
        /\ fin \in {<<TBash, TDashX>>, <<TBash, DashC, TExtra>>, <<TMyshell, DashC>>,
                    ShDockerRun, <<>>, <<TBash>>} => ~fout[1]

C1_Witness == pc = "out" /\ fin = <<TPwsh, TDashNop, DashC>> /\ fout = <<TRUE>>

\* C2: the command of a dispatch has program sh[0] and arguments sh[1:]
\* followed by the args one by one (SeparateArgs) or by the single element
\* shellJoin(args) (Join).
C2_ArgvIsSpecThenArgs ==
    Dispatched =>
        /\ cmd.Path = sh[1]
        /\ Len(cmd.Args) = (Len(sh) - 1) + (IF joinMode THEN 1 ELSE Len(args))
        /\ \A i \in 2..Len(sh) : cmd.Args[i - 1] = sh[i]
        /\ ~joinMode => \A i \in DOMAIN args : cmd.Args[Len(sh) - 1 + i] = args[i]
        /\ joinMode => /\ Last(cmd.Args) = shellJoin(args)
                       /\ PosixRead(Last(cmd.Args)) = [ok |-> TRUE, words |-> args]
        /\ Started => proc.argv = <<sh[1]>> \o cmd.Args
        /\ sh = <<TBash, DashC>> /\ args = <<TEcho, THelloWorld>>
               => cmd.Args = <<DashC, LitEchoHelloWorld>>
        /\ sh = ShDockerRun /\ args = <<TEcho, THi>>
               => cmd.Args = <<TRun, TRm, TAlpine, TEcho, THi>>

C2_Witness ==
    /\ pc = "running"
    /\ sh = <<TBash, DashC>>
    /\ joinMode
    /\ proc.argv = <<TBash, DashC, LitEchoHelloWorld>>

\* C3: shellQuote(s), read by a POSIX single-quote-aware reader, is the one
\* word s, with no metacharacter interpreted.
C3_QuoteReadsBackAsOneWord ==
    pc = "out" => PosixRead(fout) = [ok |-> TRUE, words |-> <<fin>>]

C3_Witness == pc = "out" /\ fin = <<"a", Quote, "$", Space>>

\* C4: shellQuote(s) is a quote, s with every quote replaced by '\'' and every
\* other character kept, and a quote.
C4_QuoteShape ==
    pc = "out" =>
        /\ Len(fout) = Len(fin) + 3 * QuotesBefore(fin, Len(fin)) + 2
        /\ fout[1] = Quote
        /\ fout[Len(fout)] = Quote
        /\ \A i \in DOMAIN fin :
              LET o == i + 3 * QuotesBefore(fin, i - 1)
              IN  IF fin[i] = Quote
                  THEN SubSeq(fout, o + 1, o + 4) = <<Quote, Backslash, Quote, Quote>>
                  ELSE fout[o + 1] = fin[i]
        /\ fin = <<>> => fout = <<Quote, Quote>>
        /\ Quote \notin Chars(fin) => fout = <<Quote>> \o fin \o <<Quote>>
        /\ fin = TItsHere => fout = LitItsHere

C4_Witness == pc = "out" /\ fin = TItsHere /\ fout = LitItsHere

RECURSIVE JoinedUpTo(_, _)
\* the length of the join of the first k elements of a
JoinedUpTo(a, k) ==
    IF k = 0 THEN 0
    ELSE JoinedUpTo(a, k - 1) + (IF k > 1 THEN 1 ELSE 0)
         + Len(a[k]) + 3 * QuotesBefore(a[k], Len(a[k])) + 2

\* C5: shellJoin(args) is the quoted elements in order with one space between
\* them; a POSIX-quote-aware word splitter gives back exactly args.
C5_JoinSplitsBackToArgs ==
    pc = "out" =>
        /\ fin = <<>> => fout = <<>>
        /\ Len(fin) = 1 => fout = shellQuote(fin[1])
        /\ Len(fout) = JoinedUpTo(fin, Len(fin))
        /\ \A k \in DOMAIN fin :
              /\ SubSeq(fout, JoinedUpTo(fin, k) - Len(shellQuote(fin[k])) + 1,
                        JoinedUpTo(fin, k)) = shellQuote(fin[k])
              /\ k > 1 => fout[JoinedUpTo(fin, k - 1) + 1] = Space
        /\ PosixRead(fout) = [ok |-> TRUE, words |-> fin]
        /\ fin = <<TEnv, TEcho, TItsFine>> => fout = LitEnvEchoItsFine

C5_Witness == pc = "out" /\ fin = << <<>>, <<Quote, Space>> >> /\ Len(fout) = 10

\* C6 as stated: a subprocess that exits with code N is reported as exit
\* status N, for every N (nil for 0).
C6_EveryExitCodeReported ==
    pc = "returned" /\ proc.state = "exited" =>
        IF proc.code = 0 THEN result.kind = "nil"
        ELSE result.kind = "exitstatus" /\ result.status = proc.code

\* C6 as amended: a subprocess that exits with code N in 0..255 is reported as
\* exit status N; a larger code is reported as N mod 256.
C6_ExitCodeReportedUpTo255 ==
    pc = "returned" /\ proc.state = "exited" =>
        /\ proc.code = 0 => result.kind = "nil"
        /\ proc.code \in 1..255 =>
              result.kind = "exitstatus" /\ result.status = proc.code
        /\ proc.code > 255 =>
              result.kind = "exitstatus" /\ result.status = proc.code - 256 * (proc.code \div 256)

C6_Witness ==
    /\ pc = "returned"
    /\ proc.state = "exited"
    /\ proc.code = 3
    /\ result = [kind |-> "exitstatus", status |-> 3, err |-> NoErr]

C8_EnvOnlyFromInterpreter ==
    Started =>
        /\ proc.env = Entries(cmd.Env)
        /\ proc.env \subseteq ExportedStrings(hcEnv)

C10_FewerThanTwoTokensSeparateArgs ==
    Dispatched /\ Len(sh) < 2 => ~joinMode /\ cmd.Args = Tail(sh) \o args

UsedJoin == cmd.Args = Tail(sh) \o <<shellJoin(args)>>
UsedSeparateArgs == cmd.Args = Tail(sh) \o args

\* C11: joinMode is fixed when the handler is built, as a function of sh, and
\* every dispatch through the handler uses that mode, whatever the args, the
\* variables, the earlier results or the number of dispatches made.
C11_ModeFixedWhenBuilt ==
    [][/\ pc # "new" => joinMode' = joinMode
       /\ pc = "idle" /\ pc' \in {"running", "returned"} =>
             /\ joinMode' = handlerJoinMode(impl, sh)
             /\ IF joinMode THEN UsedJoin' /\ ~UsedSeparateArgs'
                ELSE UsedSeparateArgs' /\ ~UsedJoin']_vars

C11_Witness ==
    /\ pc = "running"
    /\ prevEnv # <<>>
    /\ hcEnv[NameF].Kind = "Indexed"
    /\ ctxDone
    /\ args = <<TEcho, THi>>
    /\ joinMode
    /\ UsedJoin

C13_ModeFromLastElementDash ==
    /\ installed => (joinMode <=> HasPrefix(Last(sh), <<"-">>))
    /\ Dispatched /\ Started =>
           IF HasPrefix(Last(sh), <<"-">>) THEN UsedJoin ELSE UsedSeparateArgs

RECURSIVE Flatten(_)
Flatten(ss) == IF ss = <<>> THEN <<>> ELSE Head(ss) \o Flatten(Tail(ss))

NonSpace(s) == SelectSeq(s, LAMBDA c : ~IsSpace(c))
\* the positions of s where a run of non-whitespace characters starts
RunStarts(s) == {i \in DOMAIN s : ~IsSpace(s[i]) /\ (i = 1 \/ IsSpace(s[i - 1]))}

\* C14: UnmarshalYAML splits a scalar node's value on runs of whitespace (no token
\* empty, none with whitespace), turns the elements of a sequence node into the
\* tokens one for one, in order and unsplit, and on any other node returns a
\* decode error and leaves the ShArgs value unchanged.
C14_ScalarSplitSequenceOneForOne ==
    pc = "out" =>
        LET node == fin.node
        IN  /\ node.Kind = "Scalar" =>
                  /\ fout.err = NoErr
                  /\ \A k \in DOMAIN fout.s :
                         fout.s[k] # <<>> /\ \A i \in DOMAIN fout.s[k] : ~IsSpace(fout.s[k][i])
                  /\ Flatten(fout.s) = NonSpace(node.Value)
                  /\ Len(fout.s) = Cardinality(RunStarts(node.Value))
            /\ node.Kind = "Sequence"
                   /\ (\A i \in DOMAIN node.Content : node.Content[i].Kind = "Scalar") =>
                  /\ fout.err = NoErr
                  /\ Len(fout.s) = Len(node.Content)
                  /\ \A i \in DOMAIN node.Content : fout.s[i] = node.Content[i].Value
            /\ node.Kind = "Sequence"
                   /\ (\E i \in DOMAIN node.Content : node.Content[i].Kind # "Scalar") =>
                  fout.err # NoErr /\ fout.s = fin.s
            /\ node.Kind \notin {"Scalar", "Sequence"} =>
                  fout.err # NoErr /\ fout.s = fin.s

\* C15: whatever the interleaving of the dispatches made through one handler,
\* the ones of the two sides of a pipeline included, the argv of each dispatch is
\* sh followed by that dispatch's own extra arguments, unaffected by the
\* arguments of any other dispatch.
C15_ArgvOfItsOwnDispatch ==
    \A k \in Sides :
        sides[k].pc = "built" =>
            sides[k].argv = sh \o extraArgs(joinMode, sides[k].args)

===========================================================================
